---- MODULE Spec2Model ----
(***************************************************************************)
(* Model of tracker_backend.py: the reconciliation of cloud announcements  *)
(* against Terraform provider releases (process_features) and the          *)
(* read-merge-write cycle over r2c_lag_data.json (main).                   *)
(*                                                                         *)
(* Text is modelled as TLA+ strings (sequences of characters); containment *)
(* is substring containment, as Python's `in` on str.  Instants are        *)
(* integers counting ticks, TicksPerDay ticks to a day; a timedelta's      *)
(* .days is the floor of the difference divided by a day, which is \div.   *)
(* The record fields id and link are copied through and read by no code;   *)
(* they are left out of the records.                                       *)
(***************************************************************************)
EXTENDS Integers, Sequences, FiniteSets, TLC

(***************************************************************************)
(* Bounds of the model.                                                    *)
(***************************************************************************)
TicksPerDay == 2
MaxReleases == 2
MaxRuns == 3

(***************************************************************************)
(* Configuration                                                           *)
(***************************************************************************)
CLOUD_CONFIG ==
  [aws |->
     [stop_words |-> {"amazon", "aws", "now", "supports", "available",
                      "introducing", "general", "availability", "for", "with",
                      "announcing", "new", "capabilities", "feature", "region",
                      "launch"},
      resource_prefix |-> "aws_"],
   azure |->
     [stop_words |-> {"azure", "microsoft", "public", "preview", "general",
                      "availability", "now", "available", "support", "in",
                      "generally", "updates", "update", "new", "announcing"},
      resource_prefix |-> "azurerm_"],
   gcp |->
     [stop_words |-> {"google", "cloud", "platform", "gcp", "beta", "ga",
                      "release", "notes", "available", "support", "feature",
                      "launch", "new", "announcing"},
      resource_prefix |-> "google_"]]

SYNONYMS ==
  [s \in {"elastic kubernetes service", "kubernetes", "elastic compute cloud",
          "ec2", "simple storage service", "relational database service",
          "lambda", "dynamodb", "cloudwatch", "identity and access management",
          "bedrock", "sagemaker", "vpc", "compute engine", "kubernetes engine",
          "cloud storage", "cloud sql", "cloud run", "bigquery",
          "security command center", "vpc service controls", "cloud functions",
          "artifact registry", "kubernetes service", "aks", "cosmos db",
          "blob storage", "virtual machines", "virtual network"} |->
     CASE s = "elastic kubernetes service" -> "eks"
       [] s = "kubernetes" -> "eks"
       [] s = "elastic compute cloud" -> "ec2"
       [] s = "ec2" -> "ec2"
       [] s = "simple storage service" -> "s3"
       [] s = "relational database service" -> "rds"
       [] s = "lambda" -> "lambda"
       [] s = "dynamodb" -> "dynamodb"
       [] s = "cloudwatch" -> "cloudwatch"
       [] s = "identity and access management" -> "iam"
       [] s = "bedrock" -> "bedrock"
       [] s = "sagemaker" -> "sagemaker"
       [] s = "vpc" -> "vpc"
       [] s = "compute engine" -> "compute"
       [] s = "kubernetes engine" -> "container"
       [] s = "cloud storage" -> "storage"
       [] s = "cloud sql" -> "sql"
       [] s = "cloud run" -> "cloudrun"
       [] s = "bigquery" -> "bigquery"
       [] s = "security command center" -> "scc"
       [] s = "vpc service controls" -> "vpcsc"
       [] s = "cloud functions" -> "cloudfunctions"
       [] s = "artifact registry" -> "artifactregistry"
       [] s = "kubernetes service" -> "kubernetes"
       [] s = "aks" -> "kubernetes"
       [] s = "cosmos db" -> "cosmosdb"
       [] s = "blob storage" -> "storage"
       [] s = "virtual machines" -> "virtual_machine"
       [] s = "virtual network" -> "virtual_network"]

(***************************************************************************)
(* Text: str.lower(), re.findall(r'\w+', ...), `x in body`, s[:n]          *)
(***************************************************************************)
UpperCase == "ABCDEFGHIJKLMNOPQRSTUVWXYZ"
LowerCase == "abcdefghijklmnopqrstuvwxyz"
Digits == "0123456789"

CharsOf(s) == {SubSeq(s, i, i) : i \in 1..Len(s)}

UpperChars == CharsOf(UpperCase)
WordChars == UpperChars \cup CharsOf(LowerCase) \cup CharsOf(Digits) \cup {"_"}

\* str.lower() on one character (ASCII)
LowerOf ==
  [c \in UpperChars |->
     LET i == CHOOSE k \in 1..Len(UpperCase) : SubSeq(UpperCase, k, k) = c
     IN  SubSeq(LowerCase, i, i)]

LowerChar(c) == IF c \in UpperChars THEN LowerOf[c] ELSE c

RECURSIVE Lower(_)
Lower(s) ==
  IF s = "" THEN "" ELSE LowerChar(SubSeq(s, 1, 1)) \o Lower(Tail(s))

IsWordChar(c) == c \in WordChars

\* re.findall(r'\w+', s): the maximal runs of word characters, left to right.
\* cur is the run being read, acc the runs already closed.
RECURSIVE FindWordsFrom(_, _, _)
FindWordsFrom(s, cur, acc) ==
  IF s = ""
    THEN IF cur = "" THEN acc ELSE Append(acc, cur)
    ELSE LET c == SubSeq(s, 1, 1) IN
         IF IsWordChar(c)
           THEN FindWordsFrom(Tail(s), cur \o c, acc)
           ELSE FindWordsFrom(Tail(s), "",
                              IF cur = "" THEN acc ELSE Append(acc, cur))

FindWords(s) == FindWordsFrom(s, "", <<>>)

\* sub in body
Contains(sub, body) ==
  \E i \in 0..(Len(body) - Len(sub)) : SubSeq(body, i + 1, i + Len(sub)) = sub

\* s[:n]
Prefix(s, n) == SubSeq(s, 1, IF Len(s) < n THEN Len(s) ELSE n)

EndsWithS(t) == Len(t) >= 1 /\ SubSeq(t, Len(t), Len(t)) = "s"

(***************************************************************************)
(* FeatureRecord                                                           *)
(***************************************************************************)
FeatureRecord(cloud, service, feature, date) ==
  [cloud |-> cloud, service |-> service, feature |-> feature, ga_date |-> date,
   tf_status |-> "Not Supported", tf_version |-> "--", lag_days |-> 0]

\* strftime("%Y-%m-%d") of an instant: its calendar day.  Days are numbered,
\* and the numbers order as the formatted strings of four-digit years do.
DateOf(instant) == instant \div TicksPerDay

to_dict(f) ==
  [cloud |-> f.cloud, service |-> Prefix(f.service, 25), feature |-> f.feature,
   status |-> f.tf_status, version |-> f.tf_version, lag |-> f.lag_days,
   date |-> DateOf(f.ga_date)]

\* (a - b).days
DaysBetween(a, b) == (a - b) \div TicksPerDay

(***************************************************************************)
(* process_features                                                        *)
(***************************************************************************)
SetMin(S) == CHOOSE x \in S : \A y \in S : x <= y
SetMax(S) == CHOOSE x \in S : \A y \in S : x >= y

\* list.sort(key=date) is stable: ascending by date, equal dates keep their
\* order.  Built date by date from the smallest.
RECURSIVE SortAscFrom(_, _)
SortAscFrom(s, dates) ==
  IF dates = {} THEN <<>>
  ELSE LET d == SetMin(dates) IN
       SelectSeq(s, LAMBDA r : r.date = d) \o SortAscFrom(s, dates \ {d})

\* mutant: the list is left in the order supplied
SortReleases_Unsorted(releases) == releases

SortReleases(releases) ==
  SortAscFrom(releases, {releases[i].date : i \in DOMAIN releases})

\* mutant: no release is filtered out
ValidReleases_All(releases, feat) == releases

ValidReleases(releases, feat) ==
  SelectSeq(releases, LAMBDA r : r.date >= feat.ga_date)

RawTokens(feat) == FindWords(Lower(feat.feature))

Tokens(feat, config) ==
  LET raw_tokens == RawTokens(feat)
      kept == {raw_tokens[i] : i \in {j \in DOMAIN raw_tokens :
                                        raw_tokens[j] \notin config.stop_words}}
  IN  kept \cup {SubSeq(t, 1, Len(t) - 1) : t \in {u \in kept : EndsWithS(u)}}

ServiceToken(feat) ==
  LET service_raw == Lower(feat.service)
  IN  IF service_raw \in DOMAIN SYNONYMS THEN SYNONYMS[service_raw]
      ELSE service_raw

ResourceGuess(feat, config) == config.resource_prefix \o ServiceToken(feat)

Hits(tokens, body) == Cardinality({t \in tokens : Contains(t, body)})

\* mutant: a release scores only when it contains every token
Score_AllTokens(tokens, body) ==
  IF tokens # {} /\ Hits(tokens, body) = Cardinality(tokens)
    THEN [num |-> 1, den |-> 1]
    ELSE [num |-> 0, den |-> 1]

\* score = hits / len(tokens) if tokens else 0, kept as a fraction
Score(tokens, body) ==
  IF tokens # {} THEN [num |-> Hits(tokens, body), den |-> Cardinality(tokens)]
  ELSE [num |-> 0, den |-> 1]

\* mutant: a resource match accepts whatever the score
Threshold_ResourceAccepts(resource_match, service_match) ==
  IF resource_match THEN [num |-> 0, den |-> 100]
  ELSE IF service_match THEN [num |-> 25, den |-> 100]
  ELSE [num |-> 30, den |-> 100]

\* 0.20, 0.25, 0.30 in hundredths
Threshold(resource_match, service_match) ==
  IF resource_match THEN [num |-> 20, den |-> 100]
  ELSE IF service_match THEN [num |-> 25, den |-> 100]
  ELSE [num |-> 30, den |-> 100]

\* a >= b on fractions with positive denominators.  The float quotient and
\* the float literal are both correctly rounded, so the comparison of the
\* floats agrees with the comparison of the fractions for any token count a
\* title can have.
FracGE(a, b) == a.num * b.den >= b.num * a.den

Accepts(tokens, service_token, resource_guess, release) ==
  LET body == release.body
      resource_match == Contains(resource_guess, body)
      service_match == Contains(service_token, body)
      score == Score(tokens, body)
      threshold == Threshold(resource_match, service_match)
  IN  FracGE(score, threshold)

\* the loop over valid_releases with its break: <<>> is None
BestMatch(feat, config, valid_releases) ==
  LET tokens == Tokens(feat, config)
      service_token == ServiceToken(feat)
      resource_guess == ResourceGuess(feat, config)
      ok == {i \in DOMAIN valid_releases :
               Accepts(tokens, service_token, resource_guess, valid_releases[i])}
  IN  IF ok = {} THEN <<>> ELSE <<valid_releases[SetMin(ok)]>>

\* the assignments to feat that follow the loop
Outcome(feat, best_match, now) ==
  IF best_match # <<>>
    THEN LET lag == DaysBetween(best_match[1].date, feat.ga_date)
         IN  [feat EXCEPT !.tf_status = "Supported",
                          !.tf_version = best_match[1].version,
                          !.lag_days = IF lag >= 0 THEN lag ELSE 0]
    ELSE [feat EXCEPT !.tf_status = "Not Supported",
                      !.lag_days = DaysBetween(now, feat.ga_date)]

\* one pass of the loop over features: the local best_match and feat after it
Reconcile(feat, config, sorted, now) ==
  LET best_match == BestMatch(feat, config, ValidReleases(sorted, feat))
  IN  [best_match |-> best_match, feat |-> Outcome(feat, best_match, now)]

\* process_features: the list returned.  The early return reconciles nothing.
process_features(features, releases, config, now) ==
  IF releases = <<>>
    THEN [i \in DOMAIN features |-> to_dict(features[i])]
    ELSE LET sorted == SortReleases(releases)
         IN  [i \in DOMAIN features |->
                to_dict(Reconcile(features[i], config, sorted, now).feat)]

(***************************************************************************)
(* main: load, scan, reconcile, merge, write                               *)
(***************************************************************************)
MinRecords == 200

\* the persisted file: NoFile, or <<records>>
NoFile == <<>>
FileOf(records) == <<records>>

\* the try/except around json.load: a missing file loads nothing
Loaded(f) == IF f = NoFile THEN <<>> ELSE f[1]

\* mutant: the scan also runs at exactly MinRecords records
RunDeepScan_AtMost(all_records) == Len(all_records) <= MinRecords

RunDeepScan(all_records) == Len(all_records) < MinRecords

\* f"{item['cloud']}-{item['feature']}"
KeyOf(item) == item.cloud \o "-" \o item.feature

\* mutant: a key keeps the value of its first item
UniqueValues_FirstWins(all_records) ==
  LET firsts == {i \in DOMAIN all_records :
                   \A j \in 1..(i - 1) : KeyOf(all_records[j]) # KeyOf(all_records[i])}
      kept == SelectSeq([i \in DOMAIN all_records |-> i], LAMBDA i : i \in firsts)
  IN  [n \in DOMAIN kept |-> all_records[kept[n]]]

\* {key(item): item for item in all_records} assigns in list order.  A dict
\* keeps a key at the position of its first assignment, with the value of
\* its last.  PositionOf maps each key to the index of its first item and
\* ValueFrom to the index of its last, over all_records[lo..hi]; the two
\* halves of the range are combined so that the earlier, or the later, wins.
RECURSIVE PositionOf(_, _, _)
PositionOf(key, lo, hi) ==
  IF lo = hi THEN key[lo] :> lo
  ELSE LET mid == (lo + hi) \div 2
       IN  PositionOf(key, lo, mid) @@ PositionOf(key, mid + 1, hi)

RECURSIVE ValueFrom(_, _, _)
ValueFrom(key, lo, hi) ==
  IF lo = hi THEN key[lo] :> lo
  ELSE LET mid == (lo + hi) \div 2
       IN  ValueFrom(key, mid + 1, hi) @@ ValueFrom(key, lo, mid)

\* list(unique_map.values())
UniqueValues(all_records) ==
  IF all_records = <<>> THEN <<>>
  ELSE LET n == Len(all_records)
           key == [i \in 1..n |-> KeyOf(all_records[i])]
           position == PositionOf(key, 1, n)
           value == ValueFrom(key, 1, n)
           inserted == SelectSeq([i \in 1..n |-> i], LAMBDA i : position[key[i]] = i)
       IN  [m \in DOMAIN inserted |-> all_records[value[key[inserted[m]]]]]

\* list.sort(key=date, reverse=True) is stable: descending by date, equal
\* dates keep their order.  Built date by date from the largest.
RECURSIVE SortDescFrom(_, _)
SortDescFrom(s, dates) ==
  IF dates = {} THEN <<>>
  ELSE LET d == SetMax(dates) IN
       SelectSeq(s, LAMBDA r : r.date = d) \o SortDescFrom(s, dates \ {d})

\* mutant: the list is sorted by date ascending
SortByDate_Ascending(final_list) ==
  SortAscFrom(final_list, {final_list[i].date : i \in DOMAIN final_list})

SortByDate(final_list) ==
  SortDescFrom(final_list, {final_list[i].date : i \in DOMAIN final_list})

\* lines 241-245: the records kept and the new ones, deduplicated and sorted
MergeStep(kept, final_new_data) == SortByDate(UniqueValues(kept \o final_new_data))

OfCloud(new_features, cloud) == SelectSeq(new_features, LAMBDA f : f.cloud = cloud)

\* lines 232-241: nothing is fetched or reconciled when nothing was collected
FinalNewData(new_features, rels, clock) ==
  IF new_features # <<>>
    THEN process_features(OfCloud(new_features, "aws"), rels.aws,
                          CLOUD_CONFIG.aws, clock)
         \o process_features(OfCloud(new_features, "azure"), rels.azure,
                             CLOUD_CONFIG.azure, clock)
         \o process_features(OfCloud(new_features, "gcp"), rels.gcp,
                             CLOUD_CONFIG.gcp, clock)
    ELSE <<>>

(***************************************************************************)
(* State                                                                   *)
(***************************************************************************)
VARIABLES
  pc,          \* "call" before process_features runs, "done" after it returned
  cloud_name,  \* the cloud of the call
  features,    \* the FeatureRecord objects passed in (updated in place)
  releases,    \* the release list passed in (sorted in place)
  now,         \* datetime.now(timezone.utc) as read during the call
  best_match,  \* per feature, the local best_match: <<>> or <<release>>
  processed,   \* the list returned
  file,        \* r2c_lag_data.json: NoFile or <<records>>
  file_before, \* the file as the last run of main found it
  new_data,    \* final_new_data of the last run of main
  exit_code,   \* exit status of the last run of main, "none" before any
  runs         \* runs of main so far

pf_vars == <<pc, cloud_name, features, releases, now, best_match, processed>>
main_vars == <<file, file_before, new_data, exit_code, runs>>
vars == <<pf_vars, main_vars>>

(***************************************************************************)
(* Inputs of process_features                                              *)
(***************************************************************************)
\* instants drawn: the start of day 0, later on day 0, the start of day 1
Times == {0, 1, TicksPerDay}

Bodies == {"aws_eks", "eks run", "aws_eks run", "tags run"}

\* service and title of the announcements drawn
Announced == {<<"Kubernetes", "Tags Pod Run">>, <<"Kubernetes", "Tags Logs Run">>,
              <<"General", "Tags Pod Run">>, <<"Kubernetes", "Now Available">>}

Features == {FeatureRecord("aws", a[1], a[2], d) : a \in Announced, d \in Times}

\* lists of two announcements are drawn over one title and service
PairFeatures == {FeatureRecord("aws", "Kubernetes", "Tags Pod Run", d) : d \in {0, TicksPerDay}}

FeatureLists == {<<>>} \cup {<<f>> : f \in Features}
                       \cup {<<f, g>> : f \in PairFeatures, g \in PairFeatures}

\* tag names are unique in a repository: the i-th release fetched is v1.i
VersionName(i) == "v1." \o ToString(i)

ReleaseListsOf(n) ==
  {[i \in 1..n |-> [version |-> VersionName(i), date |-> p[i][1], body |-> p[i][2]]] :
     p \in [1..n -> Times \X Bodies]}

ReleaseLists == UNION {ReleaseListsOf(n) : n \in 0..MaxReleases}

\* The example of the specification: dates of 2024 as instants at 00:00Z
DaysBeforeMonth == <<0, 31, 60, 91, 121, 152, 182, 213, 244, 274, 305, 335>>
Instant2024(month, day) == (DaysBeforeMonth[month] + day - 1) * TicksPerDay

ExampleFeature ==
  FeatureRecord("aws", "General", "AWS Widget Compression", Instant2024(1, 10))

ExampleReleaseSet ==
  {[version |-> "v1.0", date |-> Instant2024(1, 5), body |-> "widget compression"],
   [version |-> "v1.2", date |-> Instant2024(2, 1), body |-> "widget"],
   [version |-> "v1.3", date |-> Instant2024(3, 1), body |-> "widget compression support"]}

\* the three releases in every order of supply
ExampleReleaseLists ==
  {s \in [1..3 -> ExampleReleaseSet] : \A i, j \in 1..3 : s[i] = s[j] => i = j}

Inputs == (FeatureLists \X ReleaseLists)
          \cup ({<<ExampleFeature>>} \X ExampleReleaseLists)

(***************************************************************************)
(* process_features as a step                                              *)
(***************************************************************************)
NoRun ==
  /\ file = NoFile
  /\ file_before = NoFile
  /\ new_data = <<>>
  /\ exit_code = "none"
  /\ runs = 0

Init ==
  /\ NoRun
  /\ pc = "call"
  /\ cloud_name = "aws"
  /\ \E inp \in Inputs : features = inp[1] /\ releases = inp[2]
  /\ now = 0
  /\ best_match = <<>>
  /\ processed = <<>>

\* One call.  processed is what process_features returns; releases, features
\* and best_match are the list sorted in place, the objects updated in place
\* and the local of each pass of the loop, as the call leaves them.
ProcessFeatures ==
  /\ pc = "call"
  /\ \E n \in Times :
       LET config == CLOUD_CONFIG[cloud_name] IN
       /\ now' = n
       /\ processed' = process_features(features, releases, config, n)
       /\ IF releases = <<>>
            THEN /\ UNCHANGED <<releases, features>>
                 /\ best_match' = [i \in DOMAIN features |-> <<>>]
            ELSE /\ releases' = SortReleases(releases)
                 /\ best_match' =
                      [i \in DOMAIN features |->
                         Reconcile(features[i], config, releases', n).best_match]
                 /\ features' =
                      [i \in DOMAIN features |->
                         Outcome(features[i], best_match'[i], n)]
  /\ pc' = "done"
  /\ UNCHANGED <<cloud_name, main_vars>>

Next == ProcessFeatures

Spec == Init /\ [][Next]_vars

(***************************************************************************)
(* Runs of main                                                            *)
(***************************************************************************)
\* What the fetchers return.  Announcements whose title holds no "Amazon" or
\* "Azure" and no colon come back with service "General".
ArchiveTitle(i) == "Console update " \o ToString(i)

\* a deep scan that finds MinRecords items in all, dated at the start of
\* two months
AwsArchive ==
  [i \in 1..(MinRecords - 1) |->
     IF i = 1 THEN FeatureRecord("aws", "General", "Tags Pod Run", 0)
     ELSE FeatureRecord("aws", "General", ArchiveTitle(i), (i % 2) * TicksPerDay)]

AzureArchive == <<FeatureRecord("azure", "General", "Tags Logs Run", 0)>>

NoArchive == [aws |-> <<>>, azure |-> <<>>]

Archives == {NoArchive, [aws |-> AwsArchive, azure |-> AzureArchive]}

Feeds ==
  {[aws |-> <<>>, azure |-> <<>>, gcp |-> <<>>],
   [aws |-> <<FeatureRecord("aws", "General", "Tags Pod Run", 0)>>,
    azure |-> <<>>, gcp |-> <<>>],
   [aws |-> <<FeatureRecord("aws", "General", "Tags Pod Run", 1),
              FeatureRecord("aws", "General", "Tags Pod Run", TicksPerDay)>>,
    azure |-> <<>>, gcp |-> <<>>],
   [aws |-> <<>>,
    azure |-> <<FeatureRecord("azure", "General", "Tags Pod Run", 0)>>,
    gcp |-> <<FeatureRecord("gcp", "General", "Tags Logs Run", TicksPerDay)>>]}

Rels ==
  {[aws |-> <<>>, azure |-> <<>>, gcp |-> <<>>],
   [c \in {"aws", "azure", "gcp"} |->
      <<[version |-> "v2.0", date |-> 2 * TicksPerDay, body |-> "tags run"]>>]}

\* the clock: a day passes between runs
ClockAt(run) == run * TicksPerDay

InitMain ==
  /\ NoRun
  /\ pc = "idle"
  /\ cloud_name = "aws"
  /\ features = <<>>
  /\ releases = <<>>
  /\ now = 0
  /\ best_match = <<>>
  /\ processed = <<>>

Main ==
  /\ runs < MaxRuns
  /\ \E archive \in (IF RunDeepScan(Loaded(file)) THEN Archives ELSE {NoArchive}),
        feed \in Feeds, rels \in Rels :
       LET existing == Loaded(file)
           run_deep_scan == RunDeepScan(existing)
           new_features ==
             (IF run_deep_scan THEN archive.aws \o archive.azure ELSE <<>>)
             \o feed.aws \o feed.azure \o feed.gcp
           kept == IF run_deep_scan THEN <<>> ELSE existing
       IN  /\ file_before' = file
           /\ new_data' = FinalNewData(new_features, rels, ClockAt(runs + 1))
           /\ file' = FileOf(MergeStep(kept, new_data'))
           /\ exit_code' = 0
  /\ runs' = runs + 1
  /\ UNCHANGED pf_vars

NextMain == Main

SpecMain == InitMain /\ [][NextMain]_vars

(***************************************************************************)
(* Properties of process_features                                          *)
(***************************************************************************)
Done == pc = "done"
Called == DOMAIN features

\* the list returned is the dictionaries of the objects as the call left them
ReturnedFromFeatures ==
  Done => processed = [i \in Called |-> to_dict(features[i])]

Config == CLOUD_CONFIG[cloud_name]

Eligible(i) == {r \in {releases[k] : k \in DOMAIN releases} : r.date >= features[i].ga_date}
TooEarly(i) == {r \in {releases[k] : k \in DOMAIN releases} : r.date < features[i].ga_date}

\* The acceptance rule of the specification, in hundredths: tokenScore is
\* hits / count (0 for no tokens), the bar 20, 25 or 30.
RuleBar(i, r) ==
  IF Contains(ResourceGuess(features[i], Config), r.body) THEN 20
  ELSE IF Contains(ServiceToken(features[i]), r.body) THEN 25
  ELSE 30

RuleHits(i, r) == Cardinality({t \in Tokens(features[i], Config) : Contains(t, r.body)})
RuleCount(i) == Cardinality(Tokens(features[i], Config))

RuleAccepts(i, r) ==
  /\ RuleCount(i) > 0
  /\ 100 * RuleHits(i, r) >= RuleBar(i, r) * RuleCount(i)

\* C1: a record returned as Supported carries the version of a release
\* published at or after the announcement's ga_date, and the release matched
\* is never one published strictly before it.
C1_NoEarlierReleaseMatched ==
  Done => \A i \in Called :
    processed[i].status = "Supported" =>
      /\ \E r \in Eligible(i) : r.version = processed[i].version
      /\ best_match[i] # <<>>
      /\ best_match[i][1] \notin TooEarly(i)

\* a Supported record while a release published before ga_date meets its bar
C1_Witness ==
  /\ Done
  /\ \E i \in Called :
       /\ processed[i].status = "Supported"
       /\ \E r \in TooEarly(i) : RuleAccepts(i, r)

\* C2: the release matched is the earliest-published eligible release that
\* meets its bar: no eligible release published strictly earlier meets its
\* own, whatever the scores of later ones and the order of supply.
C2_FirstMatchWins ==
  Done => \A i \in Called :
    processed[i].status = "Supported" =>
      /\ best_match[i] # <<>>
      /\ best_match[i][1] \in Eligible(i)
      /\ RuleAccepts(i, best_match[i][1])
      /\ processed[i].version = best_match[i][1].version
      /\ \A r \in Eligible(i) :
           r.date < best_match[i][1].date => ~RuleAccepts(i, r)

\* the release matched was supplied after a later-published release whose
\* token score is higher
C2_Witness ==
  /\ Done
  /\ \E i \in Called :
       /\ best_match[i] # <<>>
       /\ best_match[i][1].version = VersionName(2)
       /\ \E r \in Eligible(i) :
            /\ r.version = VersionName(1)
            /\ r.date > best_match[i][1].date
            /\ RuleHits(i, r) > RuleHits(i, best_match[i][1])

\* C3: every eligible release is tested by tokenScore >= bar with the bar
\* 0.20, 0.25 or 0.30 by resource and service match: the release matched
\* passes the test, every eligible release ahead of it in publish order
\* fails it, all fail it when none is matched, and a release with token
\* score 0 is never the match.
C3_ThresholdRule ==
  Done /\ releases # <<>> => \A i \in Called :
    IF best_match[i] = <<>>
      THEN \A r \in Eligible(i) : ~RuleAccepts(i, r)
      ELSE /\ RuleAccepts(i, best_match[i][1])
           /\ RuleHits(i, best_match[i][1]) > 0
           /\ \A r \in Eligible(i) :
                r.date < best_match[i][1].date => ~RuleAccepts(i, r)

\* a release at exactly its bar of 0.20 is matched, after an eligible
\* release that contains the resource-name guess and none of the tokens
C3_Witness ==
  /\ Done
  /\ \E i \in Called :
       /\ best_match[i] # <<>>
       /\ RuleBar(i, best_match[i][1]) = 20
       /\ 5 * RuleHits(i, best_match[i][1]) = RuleCount(i)
       /\ \E r \in Eligible(i) :
            /\ r.date < best_match[i][1].date
            /\ RuleBar(i, r) = 20 /\ RuleHits(i, r) = 0

\* C4: the lag of every record returned is never negative.
C4_LagNeverNegative ==
  Done => \A i \in Called : processed[i].lag >= 0

\* C5: whenever no release is accepted, the record is Not Supported with
\* version "--" and a lag of the whole days from ga_date to the current
\* instant, also when there are no releases at all.
C5_NotSupportedLag ==
  Done => \A i \in Called :
    best_match[i] = <<>> =>
      /\ processed[i].status = "Not Supported"
      /\ processed[i].version = "--"
      /\ processed[i].lag = DaysBetween(now, features[i].ga_date)

IsExample ==
  /\ Done
  /\ Len(features) = 1
  /\ features[1].feature = ExampleFeature.feature
  /\ features[1].ga_date = ExampleFeature.ga_date
  /\ {releases[k] : k \in DOMAIN releases} = ExampleReleaseSet

\* C6 as stated: the example returns Supported, version v1.3, lag 51,
\* v1.2 not being accepted.
C6_ExampleAsStated ==
  IsExample =>
    /\ processed[1].status = "Supported"
    /\ processed[1].version = "v1.3"
    /\ processed[1].lag = 51

\* C6 as amended: in the example v1.0 is excluded, v1.2 (token score 1/2,
\* bar 0.30) is accepted, and the record is Supported, version v1.2, lag 22.
C6_ExampleAmended ==
  IsExample =>
    /\ Tokens(features[1], Config) = {"widget", "compression"}
    /\ \A r \in ExampleReleaseSet : RuleBar(1, r) = 30
    /\ ValidReleases(releases, features[1]) =
         SelectSeq(releases, LAMBDA r : r.version # "v1.0")
    /\ best_match[1] # <<>> /\ best_match[1][1].version = "v1.2"
    /\ processed[1].status = "Supported"
    /\ processed[1].version = "v1.2"
    /\ processed[1].lag = 22

C6_Witness == IsExample /\ processed[1].status = "Supported"

(***************************************************************************)
(* Properties of main                                                      *)
(***************************************************************************)
Ran == runs > 0

Before == Loaded(file_before)
Written == Loaded(file)

RangeOf(s) == {s[i] : i \in DOMAIN s}
KeysOf(s) == {KeyOf(s[i]) : i \in DOMAIN s}

\* the last record of a list with the key of its i-th
LastOfKey(s, i) == \A j \in DOMAIN s : j > i => KeyOf(s[j]) # KeyOf(s[i])

SortedByDateDescending(s) ==
  \A i \in 1..(Len(s) - 1) : s[i].date >= s[i + 1].date

\* C7: the file written holds exactly one record per key (cloud + feature),
\* and for a key produced in this run it holds the record produced (the
\* last one, when the run produced several), whatever the file held before.
C7_NewRecordWins ==
  Ran =>
    /\ Cardinality(KeysOf(Written)) = Len(Written)
    /\ KeysOf(new_data) \subseteq KeysOf(Written)
    /\ \A i \in DOMAIN new_data :
         LastOfKey(new_data, i) => new_data[i] \in RangeOf(Written)
    /\ \A r \in RangeOf(Before) :
         (Len(Before) >= MinRecords /\ KeyOf(r) \notin KeysOf(new_data))
           => r \in RangeOf(Written)

\* a record loaded as Not Supported is replaced by the Supported record this
\* run produced under the same key
C7_Witness ==
  /\ Ran
  /\ Len(Before) >= MinRecords
  /\ \E e \in RangeOf(Before), i \in DOMAIN new_data :
       /\ KeyOf(e) = KeyOf(new_data[i])
       /\ e.status = "Not Supported"
       /\ new_data[i].status = "Supported"
       /\ new_data[i] \in RangeOf(Written)
       /\ e \notin RangeOf(Written)

\* C8: the file written is ordered by date descending; merging it with
\* itself gives it back; and merging nothing with the new records gives
\* exactly one record of the new ones per key, ordered by date descending.
C8_MergeIdempotent ==
  Ran =>
    /\ SortedByDateDescending(Written)
    /\ MergeStep(Written, Written) = Written
    /\ KeysOf(MergeStep(new_data, new_data)) = KeysOf(new_data)
    /\ LET rebuilt == MergeStep(<<>>, new_data)
       IN  /\ KeysOf(rebuilt) = KeysOf(new_data)
           /\ Cardinality(KeysOf(rebuilt)) = Len(rebuilt)
           /\ RangeOf(rebuilt) \subseteq RangeOf(new_data)
           /\ SortedByDateDescending(rebuilt)
           /\ Len(Before) < MinRecords => Written = rebuilt

\* a run from no records whose new records came in an order that is not by
\* date descending
C8_Witness ==
  /\ Ran
  /\ Before = <<>>
  /\ \E i, j \in DOMAIN new_data :
       i < j /\ new_data[i].date < new_data[j].date
             /\ KeyOf(new_data[i]) # KeyOf(new_data[j])
  /\ Len(Written) >= 2

\* C9 as stated: every key of the file a run found is in the file it wrote.
C9_KeysNeverDeleted ==
  Ran => KeysOf(Before) \subseteq KeysOf(Written)

\* C9 as amended: every key of the file a run found is in the file it
\* wrote when the file found held at least MinRecords (200) records; a run
\* that finds fewer rebuilds the file from its scan alone.
C9_KeysKeptFromMinRecords ==
  (Ran /\ Len(Before) >= MinRecords) => KeysOf(Before) \subseteq KeysOf(Written)

\* a run that found MinRecords records and added a key
C9_Witness ==
  /\ Ran
  /\ Len(Before) = MinRecords
  /\ KeysOf(Before) # KeysOf(Written)
  /\ KeysOf(Before) \subseteq KeysOf(Written)

\* C10: a run that collects no announcement ends with a nonzero exit status
\* and leaves the file as it found it.
C10_NoDataIsHardFailure ==
  (Ran /\ new_data = <<>>) => (exit_code # 0 /\ file = file_before)

====
